---- MODULE Spec2Model ----
(***************************************************************************)
(* MIGOP Editor V3 - the workflow controller of                            *)
(* migop-editor/V3/workflow-controller.js.  The file holds two IIFEs; the  *)
(* second one (lines 681-1453, "TRUE chunked processing") is loaded last   *)
(* and overwrites window.MIGOP.workflowController, so it is the controller *)
(* that runs and the one modelled here.                                    *)
(*                                                                         *)
(* The browser is one cooperative thread: a handler runs to completion,    *)
(* and the pending work is (a) timers set with setTimeout, which run in    *)
(* deadline order, equal deadlines in registration order, and (b) calls    *)
(* whose completion the environment delivers (google.script.run handlers,  *)
(* the DOCX processor callbacks).  Time passes only between handlers; an   *)
(* environment event is delivered at the current instant.  updateStatus    *)
(* and the setInterval status tickers only publish telemetry (they neither *)
(* read nor write currentState, workflowData or activeServerCalls) and are *)
(* not represented.                                                        *)
(***************************************************************************)
EXTENDS Integers, Sequences, FiniteSets, TLC

\* ------------------------------------------------------------------ bounds
\* the user issues at most MaxUserCalls calls of the public API
\* (startWorkflow, resumeWorkflow, reset)
MaxUserCalls == 3
\* the Suggestion Detector returns 0..MaxSuggestions suggestions
MaxSuggestions == 1
\* the version counter delivered by the Gateway is NoCounter (absent) or 1..MaxCounter
MaxCounter == 2

\* chunkProcess is given at most MaxItems items and a slice size of 0..MaxChunk
MaxItems == 3
MaxChunk == 2

\* at most MaxExecs executions of getOrIncrementVersionCounter run at a time,
\* and writeVersionHistoryPage is called at most MaxWrites times
MaxExecs == 2
MaxWrites == 2

\* the Version Manager is given the counters 0..MaxSequential and comments of
\* at most MaxLen characters
MaxSequential == 10
MaxLen == 4
\* parseVersionNumber is given identifiers of at most MaxFields fields
MaxFields == 9

\* ------------------------------------------------------- program constants
YieldDelay == 50
\* the export timeout given in seconds where setTimeout takes milliseconds
ExportTimeoutInSeconds == 30000 \div 1000
ExportTimeoutMs == 30000
ReplaceTimeoutMs == 60000
AnalyzeDelay == 100
AnalyzedDelay == 200
TransformDelay == 200
TransformedDelay == 100

\* JavaScript null / undefined of the fields of workflowData
NULL == "null"
NoCounter == 0
NoVersion == [seq |-> NoCounter, type |-> NULL]

WorkflowStates ==
  { "IDLE", "PHASE_1_EXPORTING", "PHASE_1_ANALYZING", "VERSION_1_PAUSE",
    "PHASE_2_TRANSFORMING", "PHASE_2_REBUILDING", "PHASE_2_REPLACING",
    "VERSION_2_PAUSE", "PHASE_3_FINALIZING", "COMPLETE", "ERROR" }

createInitialState ==
  [ versionCounter |-> NoCounter,
    phase1 |-> [ exportedDocxBlob |-> NULL, exportedDocxBase64 |-> NULL,
                 documentXml |-> NULL, suggestions |-> 0,
                 versionNumber |-> NoVersion, zip |-> NULL ],
    phase2 |-> [ modifiedXml |-> NULL, rebuiltDocxBlob |-> NULL,
                 rebuiltDocxBase64 |-> NULL, versionNumber |-> NoVersion,
                 isOfficial |-> FALSE ],
    phase3 |-> [ committee |-> NULL, comments |-> NULL, timestamp |-> NULL ] ]

\* the userData argument of resumeWorkflow; given = FALSE is an absent argument
NoUserData == [given |-> FALSE, isOfficial |-> FALSE, committee |-> NULL, comments |-> NULL]
UserDatas ==
  { NoUserData,
    [given |-> TRUE, isOfficial |-> FALSE, committee |-> NULL, comments |-> NULL] }
  \cup { [given |-> TRUE, isOfficial |-> TRUE, committee |-> c, comments |-> m] :
           c \in {"", "PDBOR"}, m \in {"", "ok"} }

VARIABLES
  currentState,       \* this.currentState
  workflowData,       \* this.workflowData
  activeServerCalls,  \* this.activeServerCalls: a set of call identifiers <<kind, n>>
  timers,             \* pending setTimeout callbacks, in registration order
  calls,              \* calls whose completion handler has not run yet
  callbackCalled,     \* handles of the replace calls whose closure has callbackCalled = true
  lastId,             \* Date.now() of this instant, per kind of call identifier (0: none taken)
  bridge,             \* whether google.script.run exists in this session
  ev,                 \* the handler that ran last: its name, its outcome, the state it
                      \* started in, the detail of the workflowError event it emitted,
                      \* whether it completed a call whose timeout had run (late) and
                      \* whether it belongs to a call that a reset() found in flight
  gw,                 \* Gateway operations invoked since the last reset()
  cancelled,          \* handles of the export / replace calls in flight at a reset()
  userCalls,          \* calls made so far by the code around the controller: calls of
                      \* the public API and writes of an event listener
  held,               \* whether the workflowData object delivered to the listeners of
                      \* workflowStateChange is the object this.workflowData refers to
  extracted,          \* the length of the array suggestionDetector.extractSuggestions
                      \* returned in this run (NotExtracted: not called yet)
  chunk,              \* the closure of one chunkProcess call: its arguments, index,
                      \* results, the processor calls made, the last slice and the
                      \* pending processChunk timer
  vm,                 \* one call of a Version Manager function: its name, its
                      \* arguments and what it returned
  server              \* the Apps Script side: the document properties, the
                      \* document's history page and the executions in progress

vars == << currentState, workflowData, activeServerCalls, timers, calls,
           callbackCalled, lastId, bridge, ev, gw, cancelled, userCalls, held,
           extracted, chunk, vm, server >>

\* the state of the workflow controller proper
ctl == << currentState, workflowData, activeServerCalls, timers, calls,
          callbackCalled, lastId, bridge, ev, gw, cancelled, userCalls, held,
          extracted >>

\* no call of suggestionDetector.extractSuggestions since startWorkflow
NotExtracted == -1

NoError == [message |-> "", error |-> "", state |-> ""]
NoIds == [export |-> 0, replace |-> 0]
NoCalls == [export |-> 0, counter |-> 0, replace |-> 0, history |-> 0]

Min(a, b) == IF a < b THEN a ELSE b

\* ----------------------------------------------------------- pending work
Timer(k, delay, h, id, n, x, ud) ==
  [k |-> k, rem |-> delay, h |-> h, id |-> id, n |-> n, x |-> x, ud |-> ud]
\* a yieldToUI continuation
Yield(k, delay, n, x) == Timer(k, delay, 0, 0, n, x, NoUserData)
Call(k, h, id) == [k |-> k, h |-> h, id |-> id, age |-> 0]

\* the timer the event loop runs next: earliest deadline, first registered
DueIdx ==
  CHOOSE i \in 1..Len(timers) :
    \A j \in 1..Len(timers) :
      \/ timers[j].rem > timers[i].rem
      \/ timers[j].rem = timers[i].rem /\ j >= i
Due == timers[DueIdx]
\* the other timers and the calls once Due.rem milliseconds have passed
Rest ==
  [ j \in 1..(Len(timers) - 1) |->
      LET t == timers[IF j < DueIdx THEN j ELSE j + 1]
      IN  [t EXCEPT !.rem = @ - Due.rem] ]
\* the age of a call is kept up to the length of its bounded wait; the calls
\* without a bounded wait have none
TimeoutOf(k) ==
  IF k = "export" THEN ExportTimeoutMs ELSE IF k = "replace" THEN ReplaceTimeoutMs ELSE 0
Aged == { [c EXCEPT !.age = Min(@ + Due.rem, TimeoutOf(c.k))] : c \in calls }
NowIds == IF Due.rem > 0 THEN NoIds ELSE lastId

\* clearTimeout(timeoutId) of the call with handle h
clearTimeout(ts, h) == SelectSeq(ts, LAMBDA t : t.h # h)

FreshHandle(ts, cs) ==
  LET used == {ts[i].h : i \in 1..Len(ts)} \cup {c.h : c \in cs}
  IN  CHOOSE n \in 1..(Cardinality(used) + 1) :
        n \notin used /\ \A m \in 1..(n - 1) : m \in used

\* 'export_' + Date.now(): a millisecond value no live identifier of the kind
\* carries, or the value already read at this instant
CallIds(kind, ts, cs, ids) ==
  LET used == {c.id : c \in {d \in cs : d.k = kind}}
              \cup {ts[i].id : i \in {j \in 1..Len(ts) : ts[j].k = kind}}
              \cup {a[2] : a \in {b \in activeServerCalls : b[1] = kind}}
      fresh == CHOOSE n \in 1..(Cardinality(used) + 1) :
                 n \notin used /\ \A m \in 1..(n - 1) : m \in used
  IN  {fresh} \cup (IF ids[kind] # 0 THEN {ids[kind]} ELSE {})

\* the handles of the pending export and replace calls and of their timers
Tracked(ts, cs) ==
  {ts[i].h : i \in {j \in 1..Len(ts) : ts[j].k \in {"export", "replace"}}}
  \cup {c.h : c \in {d \in cs : d.k \in {"export", "replace"}}}

\* the export and replace calls whose completion handler runs in a step to cs
Completed(cs) ==
  {c \in calls : c.k \in {"export", "replace"} /\ c.h \notin {d.h : d \in cs}}

TimedOut(c) == \A i \in 1..Len(timers) : timers[i].h # c.h

\* one handler's effect on the whole state; clip is how the clipboard write
\* the handler made ended ("none": it made none), found the number of
\* suggestions the Suggestion Detector has returned in this run
StepFound(st, wd, asc, ts, cs, cc, ids, le, op, outcome, g, clip, found) ==
  /\ currentState' = st
  /\ workflowData' = wd
  /\ activeServerCalls' = asc
  /\ timers' = ts
  /\ calls' = cs
  /\ callbackCalled' = cc \cap {c.h : c \in cs}
  /\ lastId' = ids
  /\ ev' = [ op |-> op, outcome |-> outcome, from |-> currentState, error |-> le,
             clipboard |-> clip,
             late |-> \E c \in Completed(cs) : TimedOut(c),
             cancelled |->
               \/ op \in {"exportTimeout", "replaceTimeout"} /\ Due.h \in cancelled
               \/ \E c \in Completed(cs) : c.h \in cancelled ]
  /\ gw' = g
  /\ cancelled' = (IF op = "reset" THEN Tracked(ts, cs) ELSE cancelled) \cap Tracked(ts, cs)
  /\ userCalls' = IF op \in {"startWorkflow", "resumeWorkflow", "reset", "listenerMutates",
                              "handleSmartButtonClick"}
                  THEN userCalls + 1 ELSE userCalls
  /\ held' = IF op = "startWorkflow" /\ outcome = "ok" THEN FALSE
             ELSE IF op = "reset" \/ st # currentState \/ outcome = "error" THEN TRUE
             ELSE held
  /\ extracted' = found
  /\ UNCHANGED << bridge, chunk, vm, server >>

\* a handler that does not call the Suggestion Detector; startWorkflow begins
\* a run in which it has not been called yet
StepClip(st, wd, asc, ts, cs, cc, ids, le, op, outcome, g, clip) ==
  StepFound(st, wd, asc, ts, cs, cc, ids, le, op, outcome, g, clip,
            IF op = "startWorkflow" /\ outcome = "ok" THEN NotExtracted ELSE extracted)

Step(st, wd, asc, ts, cs, cc, ids, le, op, outcome, g) ==
  StepClip(st, wd, asc, ts, cs, cc, ids, le, op, outcome, g, "none")

\* handleError: transitionTo(ERROR), then the workflowError event, whose
\* state field is read from currentState after the transition
handleError(message, details) ==
  [message |-> message, error |-> details, state |-> "ERROR"]

\* no call of chunkProcess has been made (timer tells the timer a slice set
\* from the one the slice before it set)
NoChunk ==
  [ pc |-> "idle", data |-> << >>, chunkSize |-> 1, nulls |-> {}, index |-> 0,
    results |-> << >>, invoked |-> << >>,
    slice |-> [items |-> 0, elapsed |-> 0, lastStart |-> 0],
    delay |-> 0, timer |-> 0, completed |-> 0, delivered |-> << >> ]

\* JavaScript values of the Version Manager: null, and a string as the
\* sequence of its characters
JSNull == [type |-> "null", chars |-> << >>]
Str(chars) == [type |-> "string", chars |-> chars]

\* an execution of getOrIncrementVersionCounter that has not been started
NoExec ==
  [pc |-> "none", increment |-> FALSE, numericCount |-> 0, ret |-> 0, failed |-> FALSE]
\* the document property MIGOP_VERSION_HISTORY when it has never been set
NoHistory == [set |-> FALSE, entries |-> << >>]
\* no call of writeVersionHistoryPage has been made
NoWrite ==
  [ pc |-> "idle", versionData |-> NULL, before |-> NoHistory,
    success |-> FALSE, calls |-> 0 ]
\* a document without properties and without a history page (count0 keeps
\* the counter the executions started from)
NoServer ==
  [ count |-> JSNull, count0 |-> 0, execs |-> [e \in 1..MaxExecs |-> NoExec],
    history |-> NoHistory, page |-> << >>, write |-> NoWrite ]

\* no call of a Version Manager function has been made
NoVMCall == [op |-> "none", pc |-> "returned", in |-> JSNull, out |-> JSNull]

\* the controller as its constructor leaves it
Constructed ==
  /\ currentState = "IDLE"
  /\ workflowData = createInitialState
  /\ activeServerCalls = {}
  /\ timers = << >>
  /\ calls = {}
  /\ callbackCalled = {}
  /\ lastId = NoIds
  /\ bridge \in BOOLEAN
  /\ ev = [ op |-> "init", outcome |-> "ok", from |-> "IDLE", error |-> NoError,
            clipboard |-> "none",
            late |-> FALSE, cancelled |-> FALSE ]
  /\ gw = NoCalls
  /\ cancelled = {}
  /\ userCalls = 0
  /\ held = FALSE
  /\ extracted = NotExtracted

Init ==
  /\ Constructed
  /\ chunk = NoChunk
  /\ vm = NoVMCall
  /\ server = NoServer

\* ------------------------------------------------------------- public API
\* one call of startWorkflow()
startWorkflowCall ==
  IF currentState # "IDLE"
  THEN Step(currentState, workflowData, activeServerCalls, timers, calls,
            callbackCalled, lastId, NoError, "startWorkflow", "noop", gw)
  ELSE Step(currentState, createInitialState, activeServerCalls,
            Append(timers, Yield("start", YieldDelay, 0, NULL)), calls,
            callbackCalled, lastId, NoError, "startWorkflow", "ok", gw)

\* startWorkflow without its IDLE guard
startWorkflowUnguarded ==
  /\ userCalls < MaxUserCalls
  /\ Step(currentState, createInitialState, activeServerCalls,
          Append(timers, Yield("start", YieldDelay, 0, NULL)), calls,
          callbackCalled, lastId, NoError, "startWorkflow", "ok", gw)
startWorkflow ==
  /\ userCalls < MaxUserCalls
  /\ startWorkflowCall

\* isPaused that also accepts the states in which a phase is running
isPausedOrRunning == currentState \notin {"IDLE", "COMPLETE", "ERROR"}
isPaused == currentState \in {"VERSION_1_PAUSE", "VERSION_2_PAUSE"}

\* one call of resumeWorkflow(userData)
resumeWorkflowCall ==
  \E userData \in UserDatas :
    IF ~isPaused
    THEN Step(currentState, workflowData, activeServerCalls, timers, calls,
              callbackCalled, lastId, NoError, "resumeWorkflow", "noop", gw)
    ELSE Step(currentState, workflowData, activeServerCalls,
              Append(timers, Timer("resume", YieldDelay, 0, 0, 0, NULL, userData)),
              calls, callbackCalled, lastId, NoError, "resumeWorkflow", "ok", gw)
resumeWorkflow ==
  /\ userCalls < MaxUserCalls
  /\ resumeWorkflowCall

\* one call of reset()
resetCall ==
  Step("IDLE", createInitialState, {}, timers, calls, callbackCalled, lastId,
       NoError, "reset", "ok", NoCalls)
reset ==
  /\ userCalls < MaxUserCalls
  /\ resetCall

\* ----------------------------------------------------------- the smart button
\* WorkflowUI.updateSmartButton(state): the label of the button and whether it
\* is disabled
updateSmartButton(state) ==
  IF state = "IDLE"
  THEN [textContent |-> "Start Workflow", disabled |-> FALSE]
  ELSE IF state \in {"VERSION_1_PAUSE", "VERSION_2_PAUSE"}
  THEN [textContent |-> "Resume", disabled |-> FALSE]
  ELSE IF state = "COMPLETE"
  THEN [textContent |-> "Done - Click to Start New Workflow", disabled |-> FALSE]
  ELSE IF state = "ERROR"
  THEN [textContent |-> "Error - Click to Reset", disabled |-> FALSE]
  ELSE [textContent |-> "Processing...", disabled |-> TRUE]

isComplete == currentState = "COMPLETE"

\* a click on the smart button, which the browser delivers while the button
\* is not disabled; in a state none of the three branches covers the handler
\* calls no method of the controller
handleSmartButtonClick ==
  /\ userCalls < MaxUserCalls
  /\ ~updateSmartButton(currentState).disabled
  /\ IF currentState = "IDLE" THEN startWorkflowCall
     ELSE IF isPaused THEN resumeWorkflowCall
     ELSE IF isComplete THEN resetCall
     ELSE Step(currentState, workflowData, activeServerCalls, timers, calls,
               callbackCalled, lastId, NoError, "handleSmartButtonClick", "noop", gw)

\* a listener of workflowStateChange writes phase3.timestamp of the
\* workflowData object it received in event.detail.  emitStateChange puts
\* this.workflowData itself into the event, so the write lands in the
\* controller's data unless startWorkflow has replaced the object since.
listenerMutates ==
  /\ userCalls < MaxUserCalls
  /\ workflowData.phase3.timestamp = NULL
  /\ IF held
     THEN Step(currentState, [workflowData EXCEPT !.phase3.timestamp = "listener"],
               activeServerCalls, timers, calls, callbackCalled, lastId, NoError,
               "listenerMutates", "ok", gw)
     ELSE Step(currentState, workflowData, activeServerCalls, timers, calls,
               callbackCalled, lastId, NoError, "listenerMutates", "noop", gw)

\* ------------------------------------------------ Phase 1: export & analyze
generateVersionNumber(sequentialNumber, type) ==
  IF type \notin {"B", "A", "O"} THEN NoVersion
  ELSE [seq |-> sequentialNumber, type |-> type]

\* what the Gateway hands to a success handler: an object with success ===
\* true, an object without it, or null
GatewayResults == {"ok", "invalid", NULL}

\* a result test that only looks whether there is a result
confirmedIfPresent(result) == result # NULL
\* !(!result || result.success !== true)
confirmed(result) == result = "ok"

\* a completion handler that does not look the call up before acting
hasUnchecked(asc, kind, id) == TRUE
\* activeServerCalls.has(callId)
has(asc, kind, id) == <<kind, id>> \in asc

\* the timer set by startWorkflow runs: executePhase1, up to the export call
executePhase1 ==
  /\ timers # << >> /\ Due.k = "start"
  /\ IF ~bridge
     THEN Step("ERROR", workflowData, activeServerCalls, Rest, Aged, callbackCalled,
               NowIds, handleError("Phase 1 Export failed", "Apps Script bridge not available"),
               "executePhase1", "error", gw)
     ELSE \E id \in CallIds("export", Rest, Aged, NowIds) :
            LET h == FreshHandle(Rest, Aged)
            IN  Step("PHASE_1_EXPORTING", workflowData,
                     activeServerCalls \cup {<<"export", id>>},
                     Append(Rest, Timer("export", ExportTimeoutMs, h, id, 0, NULL, NoUserData)),
                     Aged \cup {Call("export", h, id)}, callbackCalled,
                     [NowIds EXCEPT !.export = id], NoError,
                     "executePhase1", "ok", [gw EXCEPT !.export = @ + 1])

\* the 30 s timer of exportDocument
exportTimeout ==
  /\ timers # << >> /\ Due.k = "export"
  /\ IF has(activeServerCalls, "export", Due.id)
     THEN Step("ERROR", workflowData, activeServerCalls \ {<<"export", Due.id>>},
               Rest, Aged, callbackCalled, NowIds,
               handleError("Phase 1 Export failed", "Export operation timed out"),
               "exportTimeout", "error", gw)
     ELSE Step(currentState, workflowData, activeServerCalls, Rest, Aged,
               callbackCalled, NowIds, NoError, "exportTimeout", "dropped", gw)

\* withSuccessHandler of exportDocument; result "invalid" is a null result or
\* one whose success is not true
exportSuccess ==
  \E c \in calls, result \in GatewayResults :
    /\ c.k = "export"
    /\ LET ts == clearTimeout(timers, c.h)
           cs == calls \ {c}
           asc == activeServerCalls \ {<<"export", c.id>>}
       IN  IF ~has(activeServerCalls, "export", c.id)
           THEN Step(currentState, workflowData, activeServerCalls, ts, cs,
                     callbackCalled, lastId, NoError, "exportSuccess", "dropped", gw)
           ELSE IF ~confirmed(result)
           THEN Step("ERROR", workflowData, asc, ts, cs, callbackCalled, lastId,
                     handleError("Phase 1 Export failed", "Export returned invalid result"),
                     "exportSuccess", "error", gw)
           ELSE Step(currentState,
                     [workflowData EXCEPT !.phase1.exportedDocxBase64 = "docx"],
                     asc, Append(ts, Yield("process", YieldDelay, 0, result)), cs,
                     callbackCalled, lastId, NoError, "exportSuccess", "ok", gw)

\* withFailureHandler of exportDocument
exportFailure ==
  \E c \in calls :
    /\ c.k = "export"
    /\ LET ts == clearTimeout(timers, c.h)
           cs == calls \ {c}
       IN  IF ~has(activeServerCalls, "export", c.id)
           THEN Step(currentState, workflowData, activeServerCalls, ts, cs,
                     callbackCalled, lastId, NoError, "exportFailure", "dropped", gw)
           ELSE Step("ERROR", workflowData, activeServerCalls \ {<<"export", c.id>>},
                     ts, cs, callbackCalled, lastId,
                     handleError("Phase 1 Export failed", "transport error"),
                     "exportFailure", "error", gw)

\* yieldToUI continuation of the export callback: processDocxChunked
processDocxChunked ==
  /\ timers # << >> /\ Due.k = "process"
  /\ Step(currentState, workflowData, activeServerCalls, Rest,
          Aged \cup {Call("process", FreshHandle(Rest, Aged), 0)},
          callbackCalled, NowIds, NoError, "processDocxChunked", "ok", gw)

\* the callback given to docxProcessor.process
processCallback ==
  \E c \in calls, success \in BOOLEAN :
    /\ c.k = "process"
    /\ IF ~success
       THEN Step("ERROR", workflowData, activeServerCalls, timers, calls \ {c},
                 callbackCalled, lastId,
                 handleError("Phase 1 DOCX processing failed", "processing errors"),
                 "processCallback", "error", gw)
       ELSE Step("PHASE_1_ANALYZING",
                 [workflowData EXCEPT !.phase1.documentXml = "xml", !.phase1.zip = "zip"],
                 activeServerCalls, Append(timers, Yield("analyze", YieldDelay, 0, NULL)),
                 calls \ {c}, callbackCalled, lastId, NoError,
                 "processCallback", "ok", gw)

\* analyzeSuggestionsChunked up to its first yield
analyzeSuggestionsChunked ==
  /\ timers # << >> /\ Due.k = "analyze"
  /\ Step(currentState, workflowData, activeServerCalls,
          Append(Rest, Yield("extract", AnalyzeDelay, 0, workflowData.phase1.documentXml)),
          Aged, callbackCalled, NowIds, NoError, "analyzeSuggestionsChunked", "ok", gw)

\* the callback of analyzeSuggestionsChunked in executePhase1
\* the callback of analyzeSuggestionsChunked without its assignment to
\* phase1.suggestions
suggestionsCallbackDropped(n, ts, cs, ids, op, found) ==
  StepFound(currentState, workflowData,
            activeServerCalls, Append(ts, Yield("genver", YieldDelay, 0, NULL)), cs,
            callbackCalled, ids, NoError, op, "ok", gw, "none", found)
suggestionsCallback(n, ts, cs, ids, op, found) ==
  StepFound(currentState, [workflowData EXCEPT !.phase1.suggestions = n],
            activeServerCalls, Append(ts, Yield("genver", YieldDelay, 0, NULL)), cs,
            callbackCalled, ids, NoError, op, "ok", gw, "none", found)

\* extractSuggestions inside the try of analyzeSuggestionsChunked; r = -1 is
\* an exception of the Suggestion Detector
extractSuggestions ==
  /\ timers # << >> /\ Due.k = "extract"
  /\ \E r \in -1..MaxSuggestions :
       IF r = -1
       THEN Step("ERROR", workflowData, activeServerCalls, Rest, Aged, callbackCalled,
                 NowIds, handleError("Suggestion analysis failed", "detector exception"),
                 "extractSuggestions", "error", gw)
       ELSE IF r = 0
       THEN suggestionsCallback(0, Rest, Aged, NowIds, "extractSuggestions", 0)
       ELSE StepFound(currentState, workflowData, activeServerCalls,
                      Append(Rest, Yield("analyzed", AnalyzedDelay, r, NULL)), Aged,
                      callbackCalled, NowIds, NoError, "extractSuggestions", "ok", gw,
                      "none", r)

analyzed ==
  /\ timers # << >> /\ Due.k = "analyzed"
  /\ suggestionsCallback(Due.n, Rest, Aged, NowIds, "analyzed", extracted)

\* generateBeforeVersion up to versionManager.getVersionCounter(true, ...)
generateBeforeVersion ==
  /\ timers # << >> /\ Due.k = "genver"
  /\ IF ~bridge
     THEN Step("ERROR", workflowData, activeServerCalls, Rest, Aged, callbackCalled,
               NowIds, handleError("Failed to generate version number",
                                   "Apps Script bridge not available"),
               "generateBeforeVersion", "error", gw)
     ELSE Step(currentState, workflowData, activeServerCalls, Rest,
               Aged \cup {Call("counter", FreshHandle(Rest, Aged), 0)},
               callbackCalled, NowIds, NoError, "generateBeforeVersion", "ok",
               [gw EXCEPT !.counter = @ + 1])

\* how a clipboard write can end: navigator.clipboard.writeText resolves or
\* rejects, or, without navigator.clipboard, document.execCommand('copy')
\* returns or throws
ClipboardResults == {"copied", "rejected", "fallbackCopied", "fallbackThrew"}

\* copyToClipboard that lets the failure of the write reach its caller
copyToClipboardUncaught(result) ==
  IF result \in {"copied", "fallbackCopied"} THEN "copied" ELSE "thrown"
\* copyToClipboard: a rejection goes to the .catch of the promise, an exception
\* of execCommand to the catch around it; both are logged only
copyToClipboard(result) ==
  IF result \in {"copied", "fallbackCopied"} THEN "copied" ELSE "logged"

\* withSuccessHandler of getVersionCounter and the callbacks it runs; the
\* callback in executePhase1 is wrapped in try/catch
counterSuccess ==
  \E c \in calls, counter \in NoCounter..MaxCounter, clip \in ClipboardResults :
    /\ c.k = "counter"
    /\ LET wd == [workflowData EXCEPT
                   !.phase1.versionNumber = generateVersionNumber(counter, "B"),
                   !.versionCounter = counter]
       IN  IF copyToClipboard(clip) = "thrown"
           THEN StepClip("ERROR", wd, activeServerCalls, timers, calls \ {c},
                         callbackCalled, lastId,
                         handleError("Phase 1 version generation error",
                                     "clipboard exception"),
                         "counterSuccess", "error", gw, clip)
           ELSE StepClip("VERSION_1_PAUSE", wd, activeServerCalls, timers, calls \ {c},
                         callbackCalled, lastId, NoError, "counterSuccess", "ok", gw, clip)

\* withFailureHandler of getVersionCounter
counterFailure ==
  \E c \in calls :
    /\ c.k = "counter"
    /\ Step("ERROR", workflowData, activeServerCalls, timers, calls \ {c},
            callbackCalled, lastId,
            handleError("Failed to generate version number", "transport error"),
            "counterFailure", "error", gw)

\* -------------------------------------------- Phase 2: transform & replace
\* the timer set by resumeWorkflow runs while the state is VERSION_1_PAUSE
executePhase2 ==
  /\ timers # << >> /\ Due.k = "resume"
  /\ currentState = "VERSION_1_PAUSE"
  /\ Step("PHASE_2_TRANSFORMING", workflowData, activeServerCalls,
          Append(Rest, Yield("transform", YieldDelay, 0, NULL)), Aged,
          callbackCalled, NowIds, NoError, "executePhase2", "ok", gw)

\* the callback of transformXmlChunked in executePhase2; it has no try/catch,
\* and reading documentXml.length of a null documentXml throws after
\* modifiedXml was assigned
transformCallback(transformedXml, ts, cs, ids, op) ==
  IF workflowData.phase1.documentXml = NULL \/ transformedXml = NULL
  THEN Step(currentState, [workflowData EXCEPT !.phase2.modifiedXml = transformedXml],
            activeServerCalls, ts, cs, callbackCalled, ids, NoError, op, "uncaught", gw)
  ELSE Step("PHASE_2_REBUILDING",
            [workflowData EXCEPT !.phase2.modifiedXml = transformedXml],
            activeServerCalls, Append(ts, Yield("rebuild", YieldDelay, 0, transformedXml)),
            cs, callbackCalled, ids, NoError, op, "ok", gw)

\* transformXmlChunked up to its first yield
transformXmlChunked ==
  /\ timers # << >> /\ Due.k = "transform"
  /\ IF workflowData.phase1.suggestions = 0
     THEN transformCallback(workflowData.phase1.documentXml, Rest, Aged, NowIds,
                            "transformXmlChunked")
     ELSE Step(currentState, workflowData, activeServerCalls,
               Append(Rest, Yield("xform", TransformDelay, workflowData.phase1.suggestions,
                                  workflowData.phase1.documentXml)),
               Aged, callbackCalled, NowIds, NoError, "transformXmlChunked", "ok", gw)

\* xmlTransformer.transformXml inside the try of transformXmlChunked
transformXml ==
  /\ timers # << >> /\ Due.k = "xform"
  /\ \E throws \in BOOLEAN :
       IF throws
       THEN Step("ERROR", workflowData, activeServerCalls, Rest, Aged, callbackCalled,
                 NowIds, handleError("XML transformation failed", "transformer exception"),
                 "transformXml", "error", gw)
       ELSE Step(currentState, workflowData, activeServerCalls,
                 Append(Rest, Yield("xformed", TransformedDelay, 0, "xml2")), Aged,
                 callbackCalled, NowIds, NoError, "transformXml", "ok", gw)

transformed ==
  /\ timers # << >> /\ Due.k = "xformed"
  /\ transformCallback(Due.x, Rest, Aged, NowIds, "transformed")

rebuildDocxChunked ==
  /\ timers # << >> /\ Due.k = "rebuild"
  /\ Step(currentState, workflowData, activeServerCalls, Rest,
          Aged \cup {Call("rebuild", FreshHandle(Rest, Aged), 0)},
          callbackCalled, NowIds, NoError, "rebuildDocxChunked", "ok", gw)

\* the callback given to docxProcessor.rebuildDocx
rebuildCallback ==
  \E c \in calls, success \in BOOLEAN :
    /\ c.k = "rebuild"
    /\ IF ~success
       THEN Step("ERROR", workflowData, activeServerCalls, timers, calls \ {c},
                 callbackCalled, lastId,
                 handleError("Phase 2 DOCX rebuild failed", "rebuild error"),
                 "rebuildCallback", "error", gw)
       ELSE Step(currentState, [workflowData EXCEPT !.phase2.rebuiltDocxBlob = "blob"],
                 activeServerCalls, Append(timers, Yield("convert", YieldDelay, 0, NULL)),
                 calls \ {c}, callbackCalled, lastId, NoError,
                 "rebuildCallback", "ok", gw)

convertBlobToBase64 ==
  /\ timers # << >> /\ Due.k = "convert"
  /\ Step(currentState, workflowData, activeServerCalls, Rest,
          Aged \cup {Call("convert", FreshHandle(Rest, Aged), 0)},
          callbackCalled, NowIds, NoError, "convertBlobToBase64", "ok", gw)

\* the callback given to docxProcessor.convertBlobToBase64
convertCallback ==
  \E c \in calls, success \in BOOLEAN :
    /\ c.k = "convert"
    /\ IF ~success
       THEN Step("ERROR", workflowData, activeServerCalls, timers, calls \ {c},
                 callbackCalled, lastId,
                 handleError("Phase 2 blob conversion failed", "conversion error"),
                 "convertCallback", "error", gw)
       ELSE Step("PHASE_2_REPLACING",
                 [workflowData EXCEPT !.phase2.rebuiltDocxBase64 = "base64"],
                 activeServerCalls, Append(timers, Yield("upload", YieldDelay, 0, NULL)),
                 calls \ {c}, callbackCalled, lastId, NoError,
                 "convertCallback", "ok", gw)

\* replaceDocumentChunked up to the Gateway call
replaceDocumentChunked ==
  /\ timers # << >> /\ Due.k = "upload"
  /\ IF ~bridge
     THEN Step("ERROR", workflowData, activeServerCalls, Rest, Aged, callbackCalled,
               NowIds, handleError("Phase 2 document replacement failed",
                                   "Apps Script bridge not available"),
               "replaceDocumentChunked", "error", gw)
     ELSE \E id \in CallIds("replace", Rest, Aged, NowIds) :
            LET h == FreshHandle(Rest, Aged)
            IN  Step(currentState, workflowData,
                     activeServerCalls \cup {<<"replace", id>>},
                     Append(Rest, Timer("replace", ReplaceTimeoutMs, h, id, 0, NULL, NoUserData)),
                     Aged \cup {Call("replace", h, id)}, callbackCalled,
                     [NowIds EXCEPT !.replace = id], NoError,
                     "replaceDocumentChunked", "ok", [gw EXCEPT !.replace = @ + 1])

\* the 60 s timer of replaceDocumentChunked
replaceTimeout ==
  /\ timers # << >> /\ Due.k = "replace"
  /\ IF has(activeServerCalls, "replace", Due.id) /\ Due.h \notin callbackCalled
     THEN Step("ERROR", workflowData, activeServerCalls \ {<<"replace", Due.id>>},
               Rest, Aged, callbackCalled \cup {Due.h}, NowIds,
               handleError("Phase 2 document replacement failed",
                           "Document replacement timed out"),
               "replaceTimeout", "error", gw)
     ELSE Step(currentState, workflowData, activeServerCalls, Rest, Aged,
               callbackCalled, NowIds, NoError, "replaceTimeout", "dropped", gw)

\* safeCallback of replaceDocumentChunked followed by the callback of
\* executePhase2, which tests the result once more
safeCallback(c, result, asc, op) ==
  IF c.h \in callbackCalled
  THEN Step(currentState, workflowData, asc, timers, calls \ {c}, callbackCalled,
            lastId, NoError, op, "dropped", gw)
  ELSE IF ~confirmed(result)
  THEN Step("ERROR", workflowData, asc, clearTimeout(timers, c.h), calls \ {c},
            callbackCalled, lastId,
            handleError("Phase 2 document replacement failed", "replacement error"),
            op, "error", gw)
  ELSE Step(currentState, workflowData, asc,
            Append(clearTimeout(timers, c.h), Yield("genafter", YieldDelay, 0, result)),
            calls \ {c}, callbackCalled, lastId, NoError, op, "ok", gw)

\* withSuccessHandler of replaceDocumentChunked
replaceSuccess ==
  \E c \in calls, result \in GatewayResults :
    /\ c.k = "replace"
    /\ IF ~has(activeServerCalls, "replace", c.id)
       THEN Step(currentState, workflowData, activeServerCalls, timers, calls \ {c},
                 callbackCalled, lastId, NoError, "replaceSuccess", "dropped", gw)
       ELSE safeCallback(c, result, activeServerCalls \ {<<"replace", c.id>>},
                         "replaceSuccess")

\* withFailureHandler of replaceDocumentChunked
replaceFailure ==
  \E c \in calls :
    /\ c.k = "replace"
    /\ IF ~has(activeServerCalls, "replace", c.id)
       THEN Step(currentState, workflowData, activeServerCalls, timers, calls \ {c},
                 callbackCalled, lastId, NoError, "replaceFailure", "dropped", gw)
       ELSE safeCallback(c, "failed", activeServerCalls \ {<<"replace", c.id>>},
                         "replaceFailure")

\* generateAfterVersion and its callback, which has no try/catch
generateAfterVersion ==
  /\ timers # << >> /\ Due.k = "genafter"
  /\ \E clip \in ClipboardResults :
       LET wd == [workflowData EXCEPT !.phase2.versionNumber =
                    generateVersionNumber(workflowData.versionCounter, "A")]
       IN  IF copyToClipboard(clip) = "thrown"
           THEN StepClip(currentState, wd, activeServerCalls, Rest, Aged, callbackCalled,
                         NowIds, NoError, "generateAfterVersion", "uncaught", gw, clip)
           ELSE StepClip("VERSION_2_PAUSE", wd, activeServerCalls, Rest, Aged,
                         callbackCalled, NowIds, NoError, "generateAfterVersion", "ok",
                         gw, clip)

\* ------------------------------------------------- Phase 3 and completion
\* the members of VersionManager.prototype (version-manager.js)
VersionManagerMethods ==
  { "generateVersionNumber", "parseVersionNumber", "formatVersionDate",
    "getVersionCounter", "writeVersionHistory", "validateVersionData",
    "getCommitteeDisplayName", "formatCommentsText", "copyToClipboard" }

\* the timer set by resumeWorkflow runs while the state is VERSION_2_PAUSE and
\* userData.isOfficial is truthy: executePhase3.  The versionData literal
\* calls versionManager.formatVersionString, which VersionManager does not
\* define: the call throws a TypeError before validateVersionData and
\* writeVersionHistory are reached, and nothing catches it.
executePhase3 ==
  /\ timers # << >> /\ Due.k = "resume"
  /\ currentState = "VERSION_2_PAUSE"
  /\ Due.ud.given /\ Due.ud.isOfficial
  /\ "formatVersionString" \notin VersionManagerMethods
  /\ Step("PHASE_3_FINALIZING",
          [workflowData EXCEPT !.phase2.isOfficial = TRUE,
                               !.phase3.committee = Due.ud.committee,
                               !.phase3.comments = Due.ud.comments,
                               !.phase2.versionNumber =
                                 generateVersionNumber(workflowData.versionCounter, "O")],
          activeServerCalls, Rest, Aged, callbackCalled, NowIds, NoError,
          "executePhase3", "uncaught", gw)

\* the dispatch of resumeWorkflow without its userData.isOfficial test
completeWorkflowAsOfficial ==
  /\ timers # << >> /\ Due.k = "resume"
  /\ currentState = "VERSION_2_PAUSE"
  /\ ~(Due.ud.given /\ Due.ud.isOfficial)
  /\ Step("PHASE_3_FINALIZING",
          [workflowData EXCEPT !.phase2.versionNumber =
                                 generateVersionNumber(workflowData.versionCounter, "O")],
          activeServerCalls, Rest, Aged, callbackCalled, NowIds, NoError,
          "completeWorkflow", "uncaught", gw)
\* the same timer when userData is absent or not official: completeWorkflow
completeWorkflow ==
  /\ timers # << >> /\ Due.k = "resume"
  /\ currentState = "VERSION_2_PAUSE"
  /\ ~(Due.ud.given /\ Due.ud.isOfficial)
  /\ Step("COMPLETE", workflowData, activeServerCalls, Rest, Aged, callbackCalled,
          NowIds, NoError, "completeWorkflow", "ok", gw)

\* the same timer when the state is no pause state any more
resumeStale ==
  /\ timers # << >> /\ Due.k = "resume"
  /\ ~isPaused
  /\ Step(currentState, workflowData, activeServerCalls, Rest, Aged, callbackCalled,
          NowIds, NoError, "resumeStale", "noop", gw)

\* getStats: the fields the claims are about; the length of the suggestions
\* array is what workflowData.phase1.suggestions holds in this model
getStats ==
  [ state |-> currentState,
    isPaused |-> isPaused,
    isComplete |-> currentState = "COMPLETE",
    suggestionsCount |-> workflowData.phase1.suggestions,
    versionCounter |-> workflowData.versionCounter,
    isOfficial |-> workflowData.phase2.isOfficial,
    activeServerCalls |-> activeServerCalls ]

\* ------------------------------------------------------------ specification
TimerFires ==
  \/ executePhase1 \/ exportTimeout \/ processDocxChunked
  \/ analyzeSuggestionsChunked \/ extractSuggestions \/ analyzed
  \/ generateBeforeVersion \/ executePhase2 \/ transformXmlChunked
  \/ transformXml \/ transformed \/ rebuildDocxChunked \/ convertBlobToBase64
  \/ replaceDocumentChunked \/ replaceTimeout \/ generateAfterVersion
  \/ executePhase3 \/ completeWorkflow \/ resumeStale

DocxCallback == processCallback \/ rebuildCallback \/ convertCallback

GatewayResponse ==
  \/ exportSuccess \/ exportFailure \/ counterSuccess \/ counterFailure
  \/ replaceSuccess \/ replaceFailure

UserCall == startWorkflow \/ resumeWorkflow \/ reset

Listener == listenerMutates

Next ==
  \/ startWorkflow \/ resumeWorkflow \/ reset \/ listenerMutates
  \/ executePhase1 \/ exportTimeout \/ exportSuccess \/ exportFailure
  \/ processDocxChunked \/ processCallback
  \/ analyzeSuggestionsChunked \/ extractSuggestions \/ analyzed
  \/ generateBeforeVersion \/ counterSuccess \/ counterFailure
  \/ executePhase2 \/ transformXmlChunked \/ transformXml \/ transformed
  \/ rebuildDocxChunked \/ rebuildCallback
  \/ convertBlobToBase64 \/ convertCallback
  \/ replaceDocumentChunked \/ replaceTimeout \/ replaceSuccess \/ replaceFailure
  \/ generateAfterVersion
  \/ executePhase3 \/ completeWorkflow \/ resumeStale

Spec == Init /\ [][Next]_vars

\* the browser runs every due timer, and the DOCX processor, which works
\* locally, calls back; a Gateway response may never arrive and the user may
\* stop calling
FairSpec == Spec /\ WF_vars(TimerFires) /\ WF_vars(DocxCallback)

\* a session in which the user starts the workflow, resets it, starts it
\* again and resumes it at both pauses, each call at any moment
UserScript ==
  << "startWorkflow", "reset", "startWorkflow", "resumeWorkflow", "resumeWorkflow" >>

ScriptedCall ==
  /\ userCalls < Len(UserScript)
  /\ \/ UserScript[userCalls + 1] = "startWorkflow" /\ startWorkflowCall
     \/ UserScript[userCalls + 1] = "reset" /\ resetCall
     \/ UserScript[userCalls + 1] = "resumeWorkflow" /\ resumeWorkflowCall

NextRerun == ScriptedCall \/ TimerFires \/ DocxCallback \/ GatewayResponse

SpecRerun == Init /\ [][NextRerun]_vars

\* a session in which the user acts only through the smart button
NextUI == handleSmartButtonClick \/ TimerFires \/ DocxCallback \/ GatewayResponse

SpecUI == Init /\ [][NextUI]_vars

TypeOK ==
  /\ currentState \in WorkflowStates
  /\ held \in BOOLEAN
  /\ extracted \in NotExtracted..MaxSuggestions
  /\ activeServerCalls \subseteq ({"export", "replace"} \X (1..20))
  /\ \A i \in 1..Len(timers) : timers[i].rem \in 0..ReplaceTimeoutMs
  /\ \A c \in calls : c.age \in 0..ReplaceTimeoutMs

\* ------------------------------------------------------------ chunkProcess
\* chunkProcess(dataArray, chunkSize, processor, onComplete) is defined by the
\* controller and called by none of its phases; it is exercised on its own,
\* on every argument list of the bounded set.
SliceBudgetSeconds == 50 * 1000
SliceBudgetMs == 50
YieldAfterMs == 100
ChunkYieldDelay == 10

\* the items of dataArray, and the wall-clock time one processor call may take
Items == {"a", "b"}
ItemMs == {0, 30, 60}

\* the item processors: one returns null (or undefined) for the items in
\* nulls and a value made of the item and its index for the others
processor(nulls, item, index) ==
  IF item \in nulls THEN NULL ELSE << item, index >>

RECURSIVE Sum(_, _)
Sum(ds, k) == IF k = 0 THEN 0 ELSE ds[k] + Sum(ds, k - 1)

\* the items the while loop of processChunk can take at most: up to the end
\* of the data and up to chunkSize
SliceMax(c) == Min(c.chunkSize, Len(c.data) - c.index)

\* the items the while loop takes when the calls of the processor last
\* ds[1], ds[2], ...: it stops before the item whose test finds the 50 ms used
\* up (the test before the first item is made at once after chunkStartTime
\* is read)
SliceLen(c, ds) ==
  IF SliceMax(c) = 0 THEN 0
  ELSE LET stops == {i \in 1..SliceMax(c) : Sum(ds, i) >= SliceBudgetMs}
       IN  IF stops = {} THEN SliceMax(c)
           ELSE CHOOSE i \in stops : \A j \in stops : i <= j

\* index after a slice that advanced by the slice size instead of the items taken
AdvanceBySize(c, k) == c.index + c.chunkSize
\* index after the k iterations of index++
Advance(c, k) == c.index + k

\* results.push(result) for every result that is neither undefined nor null
RECURSIVE Push(_, _, _, _)
Push(results, c, from, k) ==
  IF k = 0 THEN results
  ELSE LET r == processor(c.nulls, c.data[from + 1], from)
       IN  Push(IF c.data[from + 1] \in c.nulls THEN results ELSE Append(results, r),
                c, from + 1, k - 1)

\* one run of processChunk, waited ms after lastYieldTime was set
processChunkBody(c, ds, waited) ==
  LET k == SliceLen(c, ds)
      elapsed == Sum(ds, k)
      taken == [ i \in 1..k |-> << c.data[c.index + i], c.index + i - 1 >> ]
      d == [ c EXCEPT !.index = Advance(c, k),
                      !.results = Push(c.results, c, c.index, k),
                      !.invoked = @ \o taken,
                      !.slice = [ items |-> k, elapsed |-> elapsed,
                                  lastStart |-> IF k = 0 THEN 0 ELSE Sum(ds, k - 1) ] ]
  IN  IF d.index >= Len(c.data)
      THEN [ d EXCEPT !.pc = "done", !.completed = @ + 1, !.delivered = d.results ]
      ELSE [ d EXCEPT !.pc = "yield",
                      !.delay = IF waited + elapsed > YieldAfterMs
                                THEN 0 ELSE ChunkYieldDelay,
                      !.timer = 1 - @ ]

\* the call of chunkProcess: the first slice runs in the caller's turn
chunkProcess ==
  /\ chunk.pc = "idle"
  /\ \E ds \in [1..SliceMax(chunk) -> ItemMs] :
       chunk' = processChunkBody(chunk, ds, 0)
  /\ UNCHANGED << ctl, vm, server >>

\* the timer set by a slice runs the next slice
processChunk ==
  /\ chunk.pc = "yield"
  /\ \E ds \in [1..SliceMax(chunk) -> ItemMs] :
       chunk' = processChunkBody(chunk, ds, chunk.delay)
  /\ UNCHANGED << ctl, vm, server >>

ChunkArgs ==
  { [ NoChunk EXCEPT !.data = data, !.chunkSize = size, !.nulls = nulls ] :
      data \in UNION { [1..n -> Items] : n \in 0..MaxItems },
      size \in 0..MaxChunk,
      nulls \in SUBSET Items }

InitChunk ==
  /\ Constructed
  /\ chunk \in ChunkArgs
  /\ vm = NoVMCall
  /\ server = NoServer

NextChunk == chunkProcess \/ processChunk

SpecChunk == InitChunk /\ [][NextChunk]_vars

FairSpecChunk == SpecChunk /\ WF_vars(processChunk)

\* --------------------------------------------------------- Version Manager
\* generateVersionNumber, parseVersionNumber, formatCommentsText and
\* validateVersionData are functions of their arguments; each is applied to
\* every argument list of a bounded set, strings being sequences of characters.
DigitChars == << "0", "1", "2", "3", "4", "5", "6", "7", "8", "9" >>
Colon == ":"
Newline == "\n"
Blank == " "

\* String(n) of a natural number
RECURSIVE NumberToString(_)
NumberToString(n) ==
  IF n < 10 THEN << DigitChars[n + 1] >>
  ELSE Append(NumberToString(n \div 10), DigitChars[(n % 10) + 1])

\* s.slice(-k)
SliceLast(s, k) == IF Len(s) <= k THEN s ELSE SubSeq(s, Len(s) - k + 1, Len(s))

\* s.padStart(len, ch)
RECURSIVE padStart(_, _, _)
padStart(s, len, ch) == IF Len(s) >= len THEN s ELSE padStart(<< ch >> \o s, len, ch)

\* the month written as getMonth() gives it, counted from 0
MonthIndex(timestamp) == timestamp.month
\* timestamp.getMonth() + 1
CalendarMonth(timestamp) == timestamp.month + 1

\* generateVersionNumber(sequentialNumber, type, timestamp) as the string it
\* builds; timestamp holds what getFullYear(), getMonth(), getDate(),
\* getHours(), getMinutes() and getSeconds() return
generateVersionString(sequentialNumber, type, timestamp) ==
  IF type \notin {"B", "A", "O"} THEN JSNull
  ELSE LET yy == padStart(SliceLast(NumberToString(timestamp.year), 2), 2, "0")
           mm == padStart(NumberToString(CalendarMonth(timestamp)), 2, "0")
           dd == padStart(NumberToString(timestamp.date), 2, "0")
           hh == padStart(NumberToString(timestamp.hours), 2, "0")
           min == padStart(NumberToString(timestamp.minutes), 2, "0")
           ss == padStart(NumberToString(timestamp.seconds), 2, "0")
       IN  Str(NumberToString(sequentialNumber) \o << Colon >> \o << type >> \o << Colon >>
               \o yy \o << Colon >> \o mm \o << Colon >> \o dd \o << Colon >>
               \o hh \o << Colon >> \o min \o << Colon >> \o ss)

\* s.split(sep): the parts between the separators
RECURSIVE split(_, _)
split(s, sep) ==
  IF \A i \in 1..Len(s) : s[i] # sep THEN << s >>
  ELSE LET i == CHOOSE k \in 1..Len(s) : s[k] = sep /\ \A j \in 1..(k - 1) : s[j] # sep
       IN  << SubSeq(s, 1, i - 1) >> \o split(SubSeq(s, i + 1, Len(s)), sep)

\* the value parseInt returns for a string that does not start with a digit
NaN == -1

DigitValue(ch) == CHOOSE v \in 0..9 : DigitChars[v + 1] = ch
IsDigit(ch) == \E v \in 0..9 : DigitChars[v + 1] = ch

\* parseInt(s) of a string without sign or leading blank: the number its
\* leading digits write
RECURSIVE ParseDigits(_, _)
ParseDigits(s, acc) ==
  IF s = << >> \/ ~IsDigit(Head(s)) THEN acc
  ELSE ParseDigits(Tail(s), 10 * acc + DigitValue(Head(s)))
parseInt(s) == IF s = << >> \/ ~IsDigit(Head(s)) THEN NaN ELSE ParseDigits(s, 0)

\* parseVersionNumber returned null
NoParse == [isNull |-> TRUE]

\* parseVersionNumber that accepts every string of eight fields or more
parseVersionNumberLenient(versionString) ==
  LET parts == split(versionString.chars, Colon)
  IN  IF Len(parts) < 8 THEN NoParse
      ELSE [ isNull |-> FALSE,
             sequential |-> parseInt(parts[1]),
             type |-> parts[2],
             year |-> parseInt(parts[3]),
             month |-> parseInt(parts[4]),
             day |-> parseInt(parts[5]),
             hour |-> parseInt(parts[6]),
             minute |-> parseInt(parts[7]),
             second |-> parseInt(parts[8]) ]
parseVersionNumber(versionString) ==
  LET parts == split(versionString.chars, Colon)
  IN  IF Len(parts) # 8 THEN NoParse
      ELSE [ isNull |-> FALSE,
             sequential |-> parseInt(parts[1]),
             type |-> parts[2],
             year |-> parseInt(parts[3]),
             month |-> parseInt(parts[4]),
             day |-> parseInt(parts[5]),
             hour |-> parseInt(parts[6]),
             minute |-> parseInt(parts[7]),
             second |-> parseInt(parts[8]) ]

monthNames ==
  << "January", "February", "March", "April", "May", "June",
     "July", "August", "September", "October", "November", "December" >>

\* the hour of a 24-hour clock taken modulo 12 and left at 0
hour12Modulo(hour) == hour % 12
\* hour12 = parsed.hour % 12; if (hour12 === 0) hour12 = 12
hour12(hour) == IF hour % 12 = 0 THEN 12 ELSE hour % 12

\* formatVersionDate(parsed): the strings it concatenates, in order
formatVersionDate(parsed) ==
  << << monthNames[parsed.month] >>, << Blank >>, NumberToString(parsed.day),
     << ",", Blank >>, NumberToString(2000 + parsed.year),
     << Blank, "a", "t", Blank >>, NumberToString(hour12(parsed.hour)), << Colon >>,
     padStart(NumberToString(parsed.minute), 2, "0"), << Blank >>,
     IF parsed.hour >= 12 THEN << "P", "M" >> ELSE << "A", "M" >> >>

\* the parsed identifiers given to formatVersionDate
ParsedDates ==
  [ isNull : {FALSE}, sequential : {7}, type : {<< "A" >>}, year : {0, 5, 25, 99},
    month : 1..12, day : {1, 30}, hour : 0..23, minute : {5, 15}, second : {0} ]

\* !value of a string or null
Falsy(value) == value.type = "null" \/ value.chars = << >>

Whitespace == {Blank, Newline}

\* s.trim()
RECURSIVE trimStart(_)
trimStart(s) == IF s # << >> /\ Head(s) \in Whitespace THEN trimStart(Tail(s)) ELSE s
RECURSIVE trimEnd(_)
trimEnd(s) ==
  IF s # << >> /\ s[Len(s)] \in Whitespace THEN trimEnd(SubSeq(s, 1, Len(s) - 1)) ELSE s
trim(s) == trimEnd(trimStart(s))

\* the number of newlines s starts with
RECURSIVE NewlineRun(_)
NewlineRun(s) == IF s # << >> /\ Head(s) = Newline THEN 1 + NewlineRun(Tail(s)) ELSE 0

\* s.replace(/\n{3,}/g, '\n\n')
RECURSIVE CollapseNewlines(_)
CollapseNewlines(s) ==
  IF s = << >> THEN << >>
  ELSE IF Head(s) = Newline
  THEN LET k == NewlineRun(s)
       IN  (IF k >= 3 THEN << Newline, Newline >> ELSE SubSeq(s, 1, k))
             \o CollapseNewlines(SubSeq(s, k + 1, Len(s)))
  ELSE << Head(s) >> \o CollapseNewlines(Tail(s))

\* s.replace(/<[^>]*>/g, ''): from the left, every "<" that has a ">" after
\* it is removed with everything up to the first such ">"
RECURSIVE StripTags(_)
StripTags(s) ==
  IF s = << >> THEN << >>
  ELSE IF Head(s) = "<" /\ \E k \in 2..Len(s) : s[k] = ">"
  THEN LET k == CHOOSE i \in 2..Len(s) : s[i] = ">" /\ \A j \in 2..(i - 1) : s[j] # ">"
       IN  StripTags(SubSeq(s, k + 1, Len(s)))
  ELSE << Head(s) >> \o StripTags(Tail(s))

formatCommentsText(comments) ==
  IF Falsy(comments) THEN Str(<< >>)
  ELSE Str(StripTags(CollapseNewlines(trim(comments.chars))))

\* validateVersionData without its test of versionData.timestamp
validateVersionDataNoTimestamp(versionData) ==
  LET errors ==
        (IF Falsy(versionData.versionNumber) THEN << "Version number is required" >>
         ELSE IF parseVersionNumber(versionData.versionNumber) = NoParse
         THEN << "Invalid version number format" >> ELSE << >>)
        \o (IF Falsy(versionData.committee) THEN << "Committee is required" >> ELSE << >>)
        \o (IF Falsy(versionData.comments) THEN << "Comments are required" >> ELSE << >>)
  IN  [valid |-> Len(errors) = 0, errors |-> errors]
validateVersionData(versionData) ==
  LET errors ==
        (IF Falsy(versionData.versionNumber) THEN << "Version number is required" >>
         ELSE IF parseVersionNumber(versionData.versionNumber) = NoParse
         THEN << "Invalid version number format" >> ELSE << >>)
        \o (IF Falsy(versionData.committee) THEN << "Committee is required" >> ELSE << >>)
        \o (IF Falsy(versionData.timestamp) THEN << "Timestamp is required" >> ELSE << >>)
        \o (IF Falsy(versionData.comments) THEN << "Comments are required" >> ELSE << >>)
  IN  [valid |-> Len(errors) = 0, errors |-> errors]

\* the arguments: what the Date given as timestamp returns from its getters,
\* the characters of a comment, the fields of a version record
Timestamps ==
  [ year : {1999, 2005, 2025}, month : {0, 11}, date : {1, 31},
    hours : {0, 23}, minutes : {5}, seconds : {0, 59} ]
CommentChars == {"a", Blank, Newline, "<", ">"}
Comments ==
  {JSNull} \cup { Str(cs) : cs \in UNION { [1..n -> CommentChars] : n \in 0..MaxLen } }
VersionNumbers ==
  { JSNull, Str(<< >>), Str(<< "7" >>),
    generateVersionString(7, "A", [year |-> 2025, month |-> 8, date |-> 30,
                                   hours |-> 9, minutes |-> 15, seconds |-> 0]),
    Str(<< "7", Colon, "A", Colon, "2", "5", Colon, "0", "9", Colon, "3", "0",
           Colon, "0", "9", Colon, "1", "5" >>),
    Str(<< Colon, Colon, Colon, Colon, Colon, Colon, Colon >>),
    Str(<< Colon, Colon, Colon, Colon, Colon, Colon, Colon, Colon >>) }
Fields == { JSNull, Str(<< >>), Str(<< "a" >>) }
VersionDatas ==
  [ versionNumber : VersionNumbers, committee : Fields, timestamp : Fields,
    comments : Fields ]

\* fields.join(':')
RECURSIVE join(_)
join(fields) ==
  IF fields = << >> THEN << >>
  ELSE IF Len(fields) = 1 THEN fields[1]
  ELSE fields[1] \o << Colon >> \o join(Tail(fields))

\* the identifiers given to parseVersionNumber: null, and up to MaxFields
\* fields, each empty or a digit
Identifiers ==
  {JSNull} \cup
  { Str(join(fs)) : fs \in UNION { [1..n -> {<< >>, << "7" >>}] : n \in 0..MaxFields } }

\* the exception of versionString.split on null
TypeError == [thrown |-> "TypeError"]

VMCalls ==
  { [op |-> "generateVersionNumber", pc |-> "called",
     in |-> [sequentialNumber |-> n, type |-> t, timestamp |-> d], out |-> JSNull] :
      n \in 0..MaxSequential, t \in {"B", "A", "O", "X"}, d \in Timestamps }
  \cup { [op |-> "formatCommentsText", pc |-> "called", in |-> c, out |-> JSNull] :
           c \in Comments }
  \cup { [op |-> "validateVersionData", pc |-> "called", in |-> r, out |-> JSNull] :
           r \in VersionDatas }
  \cup { [op |-> "parseVersionNumber", pc |-> "called", in |-> i, out |-> JSNull] :
           i \in Identifiers }
  \cup { [op |-> "formatVersionDate", pc |-> "called", in |-> p, out |-> JSNull] :
           p \in ParsedDates }

callGenerateVersionNumber ==
  /\ vm.op = "generateVersionNumber" /\ vm.pc = "called"
  /\ vm' = [vm EXCEPT !.pc = "returned",
                      !.out = generateVersionString(vm.in.sequentialNumber, vm.in.type,
                                                    vm.in.timestamp)]
  /\ UNCHANGED << ctl, chunk, server >>

\* parseVersionNumber applied to the string generateVersionNumber returned
callParseVersionNumber ==
  /\ vm.op = "generateVersionNumber" /\ vm.pc = "returned"
  /\ vm.out # JSNull
  /\ vm' = [vm EXCEPT !.op = "parseVersionNumber",
                      !.out = parseVersionNumber(vm.out)]
  /\ UNCHANGED << ctl, chunk, server >>

\* parseVersionNumber applied to an identifier
callParseIdentifier ==
  /\ vm.op = "parseVersionNumber" /\ vm.pc = "called"
  /\ vm' = [vm EXCEPT !.pc = "returned",
                      !.out = IF vm.in.type = "null" THEN TypeError
                              ELSE parseVersionNumber(vm.in)]
  /\ UNCHANGED << ctl, chunk, server >>

callFormatVersionDate ==
  /\ vm.op = "formatVersionDate" /\ vm.pc = "called"
  /\ vm' = [vm EXCEPT !.pc = "returned", !.out = formatVersionDate(vm.in)]
  /\ UNCHANGED << ctl, chunk, server >>

callFormatCommentsText ==
  /\ vm.op = "formatCommentsText" /\ vm.pc = "called"
  /\ vm' = [vm EXCEPT !.pc = "returned", !.out = formatCommentsText(vm.in)]
  /\ UNCHANGED << ctl, chunk, server >>

callValidateVersionData ==
  /\ vm.op = "validateVersionData" /\ vm.pc = "called"
  /\ vm' = [vm EXCEPT !.pc = "returned", !.out = validateVersionData(vm.in)]
  /\ UNCHANGED << ctl, chunk, server >>

InitVM ==
  /\ Constructed
  /\ chunk = NoChunk
  /\ vm \in VMCalls
  /\ server = NoServer

NextVM ==
  \/ callGenerateVersionNumber \/ callParseVersionNumber \/ callParseIdentifier
  \/ callFormatCommentsText \/ callValidateVersionData \/ callFormatVersionDate

SpecVM == InitVM /\ [][NextVM]_vars

\* ------------------------------------------------------ Apps Script server
\* The server functions of v3.gs run as separate executions of the script:
\* every google.script.run call starts one, and the executions of several
\* calls (of one user or of several users of the document) overlap.  They
\* share the document properties and the document; each call of the
\* Properties Service is one step.

\* the values the counter property holds when the executions start: never
\* set, or the decimal text of a number
StoredCounts == {JSNull} \cup { Str(NumberToString(n)) : n \in 0..MaxCounter }

\* var currentCount = properties.getProperty('MIGOP_VERSION_COUNT');
\* if (!currentCount) currentCount = '0'; parseInt(currentCount)
readCount(value) == parseInt(IF Falsy(value) THEN << "0" >> ELSE value.chars)

\* getOrIncrementVersionCounter up to the read of the property; without
\* increment it returns what it read
getVersionCount(e) ==
  /\ server.execs[e].pc = "called"
  /\ LET n == readCount(server.count)
     IN  server' =
           [ server EXCEPT !.execs[e] =
               IF @.increment
               THEN [@ EXCEPT !.pc = "read", !.numericCount = n]
               ELSE [@ EXCEPT !.pc = "returned", !.numericCount = n, !.ret = n] ]
  /\ UNCHANGED << ctl, chunk, vm >>

\* numericCount++; properties.setProperty('MIGOP_VERSION_COUNT', ...); return
setVersionCount(e) ==
  /\ server.execs[e].pc = "read"
  /\ LET n == server.execs[e].numericCount + 1
     IN  server' =
           [ server EXCEPT !.count = Str(NumberToString(n)),
                           !.execs[e] = [@ EXCEPT !.pc = "returned",
                                                  !.numericCount = n, !.ret = n] ]
  /\ UNCHANGED << ctl, chunk, vm >>

\* the Properties Service throws in getProperty or setProperty: catch, return 1
counterCatch(e) ==
  /\ server.execs[e].pc \in {"called", "read"}
  /\ server' = [ server EXCEPT !.execs[e] =
                   [@ EXCEPT !.pc = "returned", !.ret = 1, !.failed = TRUE] ]
  /\ UNCHANGED << ctl, chunk, vm >>

\* the version records writeVersionHistoryPage is given; a field the caller
\* left out is undefined
Undefined == "undefined"
HistoryRecords ==
  [ versionNumber : {Undefined, "25:11:04:09:30:B:U:1"},
    committee : {"Rules"},
    timestamp : {"2025-11-04T09:30:00Z"},
    comments : {"approved"} ]

\* a call of writeVersionHistoryPage(versionData); the calls follow each other
callWriteVersionHistoryPage ==
  /\ server.write.pc \in {"idle", "returned"}
  /\ server.write.calls < MaxWrites
  /\ \E versionData \in HistoryRecords :
       server' = [ server EXCEPT !.write =
                     [ pc |-> "saving", versionData |-> versionData,
                       before |-> server.history, success |-> FALSE,
                       calls |-> @.calls + 1 ] ]
  /\ UNCHANGED << ctl, chunk, vm >>

\* saveVersionMetadata: history.unshift(entry) on the parsed property, which
\* is stored again; writeVersionHistoryPage goes on to the document
saveVersionMetadata ==
  /\ server.write.pc = "saving"
  /\ server' = [ server EXCEPT
                   !.history = [ set |-> TRUE,
                                 entries |-> << server.write.versionData >> \o @.entries ],
                   !.write.pc = "page" ]
  /\ UNCHANGED << ctl, chunk, vm >>

\* saveVersionMetadata catches an exception of the Properties Service or of
\* JSON.parse and returns success: false, which writeVersionHistoryPage
\* returns
saveVersionMetadataCatch ==
  /\ server.write.pc = "saving"
  /\ server' = [ server EXCEPT !.write.pc = "returned", !.write.success = FALSE ]
  /\ UNCHANGED << ctl, chunk, vm >>

\* the entry is written into the document (createVersionHistoryPage for the
\* first one, insertVersionEntry above the older ones after it)
writeHistoryPage ==
  /\ server.write.pc = "page"
  /\ server.write.versionData.versionNumber # Undefined
  /\ server' = [ server EXCEPT
                   !.page = << server.write.versionData.versionNumber >> \o @,
                   !.write.pc = "returned", !.write.success = TRUE ]
  /\ UNCHANGED << ctl, chunk, vm >>

\* the Document Service throws, or versionData.versionNumber.split(':') does
\* because versionNumber is undefined: catch, return success: false
writeHistoryPageCatch ==
  /\ server.write.pc = "page"
  /\ server' = [ server EXCEPT !.write.pc = "returned", !.write.success = FALSE ]
  /\ UNCHANGED << ctl, chunk, vm >>

\* executions of getOrIncrementVersionCounter that have been started on a
\* document with any stored counter
Servers ==
  { [ NoServer EXCEPT !.count = count, !.count0 = readCount(count), !.execs = execs ] :
      count \in StoredCounts,
      execs \in [ 1..MaxExecs ->
                    { [NoExec EXCEPT !.pc = "called", !.increment = inc] :
                        inc \in BOOLEAN } ] }

InitServer ==
  /\ Constructed
  /\ chunk = NoChunk
  /\ vm = NoVMCall
  /\ server \in Servers

NextServer ==
  \/ \E e \in 1..MaxExecs : getVersionCount(e)
  \/ \E e \in 1..MaxExecs : setVersionCount(e)
  \/ \E e \in 1..MaxExecs : counterCatch(e)
  \/ callWriteVersionHistoryPage
  \/ saveVersionMetadata \/ saveVersionMetadataCatch
  \/ writeHistoryPage \/ writeHistoryPageCatch

SpecServer == InitServer /\ [][NextServer]_vars


\* ==================================================================== claims
\* the phase-execution chains that still have a continuation to run: the
\* yieldToUI timers of the phases and the calls whose completion a phase
\* callback awaits
PhaseTimers ==
  {i \in 1..Len(timers) : timers[i].k \notin {"start", "resume", "export", "replace"}}
AwaitedCalls ==
  {c \in calls : c.k \in {"export", "replace"} =>
                   has(activeServerCalls, c.k, c.id) /\ c.h \notin callbackCalled}
ActiveChains == Cardinality(PhaseTimers) + Cardinality(AwaitedCalls)

\* C1: at most one phase-execution chain (executePhase1, executePhase2 or
\* executePhase3) is active at any time, whatever startWorkflow /
\* resumeWorkflow / reset calls and callbacks are interleaved.
C1_AtMostOneChain == ActiveChains <= 1

\* C2: stale call immunity - the completion (success or failure handler) of
\* an export or replace call whose timeout has already run changes neither
\* currentState nor workflowData and invokes no phase callback.
C2_StaleCallImmunity ==
  [][ ev'.late =>
        /\ currentState' = currentState
        /\ workflowData' = workflowData
        /\ activeServerCalls' = activeServerCalls
        /\ timers' = timers
        /\ ev'.outcome = "dropped" ]_vars

\* a completion handler has run for a call whose timeout had fired
C2_LateCompletion ==
  /\ ev.late
  /\ ev.op \in {"exportSuccess", "exportFailure", "replaceSuccess", "replaceFailure"}
  /\ currentState = "ERROR"

\* C3: reset() leaves currentState = IDLE, the empty workflowData and no
\* tracked call identifier, and afterwards the success, failure and timeout
\* callbacks of every export or replace call that was in flight at the reset
\* change neither currentState nor workflowData.
C3_ResetCancels ==
  [][ /\ ev'.op = "reset" =>
           /\ currentState' = "IDLE"
           /\ workflowData' = createInitialState
           /\ activeServerCalls' = {}
      /\ ev'.cancelled =>
           /\ currentState' = currentState
           /\ workflowData' = workflowData ]_vars

SpecifiedEdges ==
  { <<"IDLE", "PHASE_1_EXPORTING">>,
    <<"PHASE_1_EXPORTING", "PHASE_1_ANALYZING">>,
    <<"PHASE_1_ANALYZING", "VERSION_1_PAUSE">>,
    <<"VERSION_1_PAUSE", "PHASE_2_TRANSFORMING">>,
    <<"PHASE_2_TRANSFORMING", "PHASE_2_REBUILDING">>,
    <<"PHASE_2_REBUILDING", "PHASE_2_REPLACING">>,
    <<"PHASE_2_REPLACING", "VERSION_2_PAUSE">>,
    <<"VERSION_2_PAUSE", "COMPLETE">>,
    <<"VERSION_2_PAUSE", "PHASE_3_FINALIZING">>,
    <<"PHASE_3_FINALIZING", "COMPLETE">> }

\* C4: every change of currentState is an edge of the specified graph, a
\* failure transition to ERROR or a reset() to IDLE, and the state is always
\* one of the eleven defined states.
C4_TransitionGraph ==
  [][ /\ currentState' \in WorkflowStates
      /\ currentState' # currentState =>
           \/ <<currentState, currentState'>> \in SpecifiedEdges
           \/ currentState' = "ERROR"
           \/ ev'.op = "reset" /\ currentState' = "IDLE" ]_vars

\* C5: validation gate - resumeWorkflow({isOfficial: true, committee: "",
\* comments: ""}) at VERSION_2_PAUSE ends in ERROR, PHASE_3_FINALIZING is
\* never the current state on that path, and the history write is not called.
C5_ValidationGate ==
  ( /\ workflowData.phase2.isOfficial
    /\ workflowData.phase3.committee = ""
    /\ workflowData.phase3.comments = "" )
  => /\ currentState # "PHASE_3_FINALIZING"
     /\ ev.op = "executePhase3" => currentState = "ERROR"
     /\ gw.history = 0

\* C6: the official path - after resumeWorkflow({isOfficial: true, committee,
\* comments}) at VERSION_2_PAUSE with non-empty committee and comments,
\* executePhase3 builds and validates the record and calls the Gateway
\* history write (and completes once the write reports success).
C6_OfficialPathWrites ==
  ( /\ ev.op = "executePhase3"
    /\ workflowData.phase3.committee \notin {"", NULL}
    /\ workflowData.phase3.comments \notin {"", NULL} )
  => /\ ev.outcome = "ok"
     /\ gw.history >= 1

Transitional ==
  { "PHASE_1_EXPORTING", "PHASE_1_ANALYZING", "PHASE_2_TRANSFORMING",
    "PHASE_2_REBUILDING", "PHASE_2_REPLACING", "PHASE_3_FINALIZING" }

\* C7: no transitional state is held forever - from every transitional state
\* the controller eventually reaches a pause state, COMPLETE or ERROR (or is
\* reset), under timer fairness, even when a Gateway call never responds.
C7_NoStuckTransitional ==
  [](currentState \in Transitional => <>(currentState \notin Transitional))

\* the timer of a call that is still waited for
TimerOf(c) == timers[CHOOSE i \in 1..Len(timers) : timers[i].h = c.h]

\* C8: bounded wait - the export call is given up exactly 30 s after it was
\* issued and the replace call exactly 60 s after: while the call is waited
\* for its timer is due at that age, and when the timer runs with the call
\* still tracked the controller moves to ERROR with a timeout error, from
\* PHASE_1_EXPORTING (PHASE_2_REPLACING) in a workflow that was started once
\* (one startWorkflow call, then one resumeWorkflow call).
C8_BoundedWait ==
  /\ [](\A c \in calls :
          c.k \in {"export", "replace"} /\ ~TimedOut(c) =>
            c.age + TimerOf(c).rem = (IF c.k = "export" THEN 30000 ELSE 60000))
  /\ [][ /\ ( ev'.op = "exportTimeout" /\ has(activeServerCalls, "export", Due.id) ) =>
              /\ currentState' = "ERROR"
              /\ ev'.error.error = "Export operation timed out"
              /\ \A c \in calls' : c.h = Due.h => c.age = 30000
              /\ userCalls = 1 => currentState = "PHASE_1_EXPORTING"
         /\ ( /\ ev'.op = "replaceTimeout"
              /\ has(activeServerCalls, "replace", Due.id)
              /\ Due.h \notin callbackCalled ) =>
              /\ currentState' = "ERROR"
              /\ ev'.error.error = "Document replacement timed out"
              /\ \A c \in calls' : c.h = Due.h => c.age = 60000
              /\ userCalls = 2 => currentState = "PHASE_2_REPLACING" ]_vars

\* an export (a replace) call has been given up by its timer
C8_TimedOutToError ==
  /\ ev.op \in {"exportTimeout", "replaceTimeout"}
  /\ ev.outcome = "error"
  /\ currentState = "ERROR"
  /\ \E c \in calls : c.k \in {"export", "replace"} /\ TimedOut(c)
                      /\ c.age = (IF c.k = "export" THEN 30000 ELSE 60000)

\* C9: any failure at any phase ends with currentState = ERROR: a failed
\* Gateway or DOCX result, a failed version counter, a failed validation, or
\* an exception raised while a phase runs never leaves the controller in a
\* transitional state.
C9_FailureEndsInError ==
  ev.outcome \in {"error", "uncaught"} => currentState = "ERROR"

\* C10: ERROR halts automatic progress - once currentState is ERROR no call,
\* timer or Gateway callback changes it; only reset() leaves ERROR, to IDLE.
C10_ErrorHalts ==
  [][ currentState = "ERROR" /\ currentState' # "ERROR" =>
        ev'.op = "reset" /\ currentState' = "IDLE" ]_vars

\* C11: resumeWorkflow(userData) called while the state is neither
\* VERSION_1_PAUSE nor VERSION_2_PAUSE is a no-op: currentState and
\* workflowData are unchanged, no timer is set (no phase is started) and no
\* Gateway or DOCX call is issued.
C11_ResumeNoOp ==
  [][ ( /\ ev'.op = "resumeWorkflow"
        /\ currentState \notin {"VERSION_1_PAUSE", "VERSION_2_PAUSE"} ) =>
        /\ currentState' = currentState
        /\ workflowData' = workflowData
        /\ activeServerCalls' = activeServerCalls
        /\ timers' = timers
        /\ calls' = calls
        /\ gw' = gw ]_vars

\* resumeWorkflow was called while Phase 1 waits for the export
C11_ResumeWhileExporting ==
  /\ ev.op = "resumeWorkflow"
  /\ ev.from = "PHASE_1_EXPORTING"
  /\ currentState = "PHASE_1_EXPORTING"
  /\ \E c \in calls : c.k = "export"

\* C12: startWorkflow() called in any state other than IDLE is a no-op:
\* currentState and workflowData are unchanged, no timer is set (no phase is
\* started) and no Gateway or DOCX call is issued.
C12_StartNoOp ==
  [][ ( ev'.op = "startWorkflow" /\ currentState # "IDLE" ) =>
        /\ currentState' = currentState
        /\ workflowData' = workflowData
        /\ activeServerCalls' = activeServerCalls
        /\ timers' = timers
        /\ calls' = calls
        /\ gw' = gw ]_vars

\* startWorkflow was called at the first pause, with the Before identifier set
C12_StartWhilePaused ==
  /\ ev.op = "startWorkflow"
  /\ ev.from = "VERSION_1_PAUSE"
  /\ currentState = "VERSION_1_PAUSE"
  /\ workflowData.phase1.versionNumber # NoVersion

\* the states of a run whose Phase 1 has succeeded
AfterPhase1 ==
  { "VERSION_1_PAUSE", "PHASE_2_TRANSFORMING", "PHASE_2_REBUILDING",
    "PHASE_2_REPLACING", "VERSION_2_PAUSE", "PHASE_3_FINALIZING", "COMPLETE" }

\* C13: counter stability - once Phase 1 has succeeded (VERSION_1_PAUSE and
\* every later state of the run up to COMPLETE), workflowData.versionCounter
\* keeps its value until the run is ended by reset().
C13_CounterStable ==
  [][ ( currentState \in AfterPhase1 /\ ev'.op # "reset" ) =>
        workflowData'.versionCounter = workflowData.versionCounter ]_vars

\* C14: the identifiers of one run - the Before identifier (phase1) carries
\* tag B, the After identifier (phase2, once Phase 2 has succeeded) tag A and
\* the Official identifier (which executePhase3 stores in its place) tag O,
\* and every identifier present has the sequence field workflowData.versionCounter,
\* so the identifiers of the run share one sequence number.
C14_IdentifierTags ==
  LET before == workflowData.phase1.versionNumber
      after  == workflowData.phase2.versionNumber
  IN  /\ before # NoVersion =>
           before.type = "B" /\ before.seq = workflowData.versionCounter
      /\ after # NoVersion =>
           /\ after.type = (IF workflowData.phase2.isOfficial THEN "O" ELSE "A")
           /\ after.seq = workflowData.versionCounter
           /\ before # NoVersion /\ after.seq = before.seq

\* C15: phase2.versionNumber is generated exactly once per run, after a
\* confirmed successful replacement: it leaves null only through
\* generateAfterVersion, the step that the success of the replace call
\* schedules, and once assigned it is not assigned again before the next reset() or
\* startWorkflow().
C15_AfterVersionOnce ==
  [][ LET after == workflowData.phase2.versionNumber
      IN  /\ ( after = NoVersion /\ workflowData'.phase2.versionNumber # NoVersion ) =>
               ev'.op = "generateAfterVersion"
          /\ ( after # NoVersion /\ ev'.op \notin {"reset", "startWorkflow"} ) =>
               workflowData'.phase2.versionNumber = after ]_vars

\* C16: phase1.versionNumber is generated exactly once per run, immediately
\* before the transition to VERSION_1_PAUSE (the step that assigns it ends in
\* VERSION_1_PAUSE), and once assigned it keeps its value until the next
\* reset() or startWorkflow(), whatever calls and callbacks follow.
C16_BeforeVersionOnce ==
  [][ LET before == workflowData.phase1.versionNumber
      IN  /\ ( before = NoVersion /\ workflowData'.phase1.versionNumber # NoVersion ) =>
               currentState' = "VERSION_1_PAUSE"
          /\ ( before # NoVersion /\ ev'.op \notin {"reset", "startWorkflow"} ) =>
               workflowData'.phase1.versionNumber = before ]_vars

\* C17: resumeWorkflow at VERSION_2_PAUSE with userData absent or
\* userData.isOfficial false completes the run: when its deferred dispatch
\* runs at VERSION_2_PAUSE the state becomes COMPLETE, PHASE_3_FINALIZING is
\* not entered, no Official identifier is generated (workflowData is left as
\* it is) and the Gateway history write is not called.
C17_UnofficialCompletes ==
  [][ ( /\ ev'.op \in {"completeWorkflow", "executePhase3", "resumeStale"}
        /\ currentState = "VERSION_2_PAUSE"
        /\ ~(Due.ud.given /\ Due.ud.isOfficial) ) =>
        /\ currentState' = "COMPLETE"
        /\ ev'.op = "completeWorkflow"
        /\ workflowData' = workflowData
        /\ workflowData'.phase2.versionNumber.type # "O"
        /\ gw'.history = 0 ]_vars

\* a run was completed without the Official mark, its After identifier kept
C17_CompletedUnofficial ==
  /\ ev.op = "completeWorkflow"
  /\ ev.from = "VERSION_2_PAUSE"
  /\ currentState = "COMPLETE"
  /\ ~workflowData.phase2.isOfficial
  /\ workflowData.phase2.versionNumber.type = "A"
  /\ gw.replace = 1 /\ gw.history = 0

\* the state in which the handler that ran last called handleError: the state
\* it started in, except that executePhase1 has entered PHASE_1_EXPORTING
\* before its export can fail
StateAtFailure ==
  IF ev.op = "executePhase1" THEN "PHASE_1_EXPORTING" ELSE ev.from

\* C18: the workflowError event emitted on a failure carries the state the
\* controller was in when the failure occurred (state-at-failure), together
\* with the message and the cause.
C18_ErrorEventState ==
  ev.outcome = "error" =>
    /\ ev.error.state = StateAtFailure
    /\ ev.error.message # ""
    /\ ev.error.error # ""

\* C19: listeners of workflowStateChange receive a deep copy of workflowData -
\* a write of a listener into the workflowData object it was handed never
\* changes the controller's own workflowData.
C19_ListenersGetCopy ==
  [][ ev'.op = "listenerMutates" => workflowData' = workflowData ]_vars

\* C20: no automatic retry - within one run (from startWorkflow to the next
\* reset()) the controller invokes each Gateway operation - export,
\* version-counter increment, replace, history write - at most once, whatever
\* startWorkflow / resumeWorkflow calls the user issues and whatever fails.
C20_NoRetry ==
  /\ gw.export <= 1
  /\ gw.counter <= 1
  /\ gw.replace <= 1
  /\ gw.history <= 1

\* the processor calls chunkProcess has to make, and what they return
AllCalls(c) == [ i \in 1..Len(c.data) |-> << c.data[i], i - 1 >> ]
AllResults(c) == [ i \in 1..Len(c.data) |-> processor(c.nulls, c.data[i], i - 1) ]

C22_SliceBound ==
  /\ chunk.slice.items <= chunk.chunkSize
  /\ chunk.slice.items >= 1 => chunk.slice.lastStart < 50
  /\ chunk.pc = "yield" =>
       /\ chunk.index < Len(chunk.data)
       /\ chunk.slice.items = chunk.chunkSize \/ chunk.slice.elapsed >= 50
       /\ chunk.delay \in {0, 10}

\* a slice was ended by the time budget before chunkSize items were processed
C22_SliceEndedByBudget ==
  /\ chunk.pc = "yield"
  /\ chunk.slice.items >= 1
  /\ chunk.slice.items < chunk.chunkSize
  /\ chunk.slice.elapsed >= 50

\* C23: suggestion analysis (Phase 1) and XML transformation (Phase 2) are
\* executed through the chunked-for-each primitive: the step that does the
\* per-item work of PHASE_1_ANALYZING or PHASE_2_TRANSFORMING is a run of
\* chunkProcess, in slices, not one unbroken call.
C23_PhasesAreChunked ==
  ( ev.op \in {"extractSuggestions", "transformXml"} /\ ev.outcome = "ok" ) =>
    chunk.pc # "idle"

\* C24: version counter anomalies are handled defensively - when the
\* Gateway's getOrIncrementVersionCounter delivers an absent or non-numeric
\* result, the controller uses the safe default 1: after the counter callback
\* versionCounter and the sequence field of the Before identifier are numeric.
C24_CounterDefault ==
  ev.op = "counterSuccess" =>
    /\ workflowData.versionCounter # NoCounter
    /\ workflowData.phase1.versionNumber.seq # NoCounter

\* C25: clipboard failure does not fail the phase - however the clipboard
\* write at the end of Phase 1 (Phase 2) ends, the handler that made it
\* leaves the controller at VERSION_1_PAUSE (VERSION_2_PAUSE), never at ERROR
\* and never short of the pause.
C25_ClipboardBestEffort ==
  /\ ev.op = "counterSuccess" =>
       /\ ev.clipboard \in ClipboardResults
       /\ currentState = "VERSION_1_PAUSE" /\ ev.outcome = "ok"
  /\ ev.op = "generateAfterVersion" =>
       /\ ev.clipboard \in ClipboardResults
       /\ currentState = "VERSION_2_PAUSE" /\ ev.outcome = "ok"

\* Phase 2 ended at its pause although both clipboard mechanisms failed there
C25_ClipboardFailedAtPause ==
  /\ ev.op = "generateAfterVersion"
  /\ ev.clipboard \in {"rejected", "fallbackThrew"}
  /\ currentState = "VERSION_2_PAUSE"
  /\ workflowData.phase1.versionNumber # NoVersion
  /\ workflowData.phase2.versionNumber.type = "A"

\* C26: COMPLETE records the final counts - whenever currentState is COMPLETE,
\* getStats().suggestionsCount is the number of suggestions the Suggestion
\* Detector returned in Phase 1 of the run; the step that enters COMPLETE
\* leaves getStats().isOfficial equal to the flag of the userData given at the
\* second pause, and neither figure changes while the state stays COMPLETE.
C26_CompleteRecordsCounts ==
  /\ [](currentState = "COMPLETE" =>
          /\ extracted # NotExtracted
          /\ getStats.suggestionsCount = extracted)
  /\ [][ /\ ev'.op = "completeWorkflow" =>
              getStats'.isOfficial = (Due.ud.given /\ Due.ud.isOfficial)
         /\ currentState = "COMPLETE" /\ currentState' = "COMPLETE" =>
              /\ getStats'.isOfficial = getStats.isOfficial
              /\ getStats'.suggestionsCount = getStats.suggestionsCount ]_vars

\* a run that found suggestions has completed as not official
C26_CompletedWithSuggestions ==
  /\ currentState = "COMPLETE"
  /\ ev.op = "completeWorkflow"
  /\ getStats.suggestionsCount = MaxSuggestions
  /\ ~getStats.isOfficial

\* C27: pause states are stable - while currentState is VERSION_1_PAUSE or
\* VERSION_2_PAUSE, no timer or Gateway callback changes currentState or
\* workflowData; the state is left only by resumeWorkflow (the dispatch it
\* schedules) or by reset.
C27_PauseStable ==
  [][ ( /\ isPaused
        /\ ev'.op \notin {"startWorkflow", "resumeWorkflow", "reset", "listenerMutates",
                          "executePhase2", "executePhase3", "completeWorkflow"} )
      => /\ currentState' = currentState
         /\ workflowData' = workflowData ]_vars

\* the result of parseVersionNumber(generateVersionNumber(n, t, d)) is at hand
RoundTrip ==
  /\ vm.op = "parseVersionNumber" /\ vm.pc = "returned"
  /\ "timestamp" \in DOMAIN vm.in

\* C28 as stated: round trip - for every counter n, type t in {B, A, O} and
\* timestamp d, parse(generate(n, t, d)) yields sequence = n, type = t and
\* year, month, day, hour, minute, second matching d exactly.
C28_RoundTripExact ==
  RoundTrip =>
    /\ ~vm.out.isNull
    /\ vm.out.sequential = vm.in.sequentialNumber
    /\ vm.out.type = << vm.in.type >>
    /\ vm.out.year = vm.in.timestamp.year
    /\ vm.out.month = vm.in.timestamp.month + 1
    /\ vm.out.day = vm.in.timestamp.date
    /\ vm.out.hour = vm.in.timestamp.hours
    /\ vm.out.minute = vm.in.timestamp.minutes
    /\ vm.out.second = vm.in.timestamp.seconds

\* C28 amended: the round trip recovers sequence, type, month (1..12), day,
\* hour, minute and second of d, and the last two digits of its year.
C28_RoundTripTwoDigitYear ==
  RoundTrip =>
    /\ ~vm.out.isNull
    /\ vm.out.sequential = vm.in.sequentialNumber
    /\ vm.out.type = << vm.in.type >>
    /\ vm.out.year = vm.in.timestamp.year % 100
    /\ vm.out.month = vm.in.timestamp.month + 1
    /\ vm.out.day = vm.in.timestamp.date
    /\ vm.out.hour = vm.in.timestamp.hours
    /\ vm.out.minute = vm.in.timestamp.minutes
    /\ vm.out.second = vm.in.timestamp.seconds

\* the round trip of a two-digit counter and a date of December 2025
C28_RoundTripOf2025 ==
  /\ RoundTrip
  /\ vm.in.sequentialNumber = MaxSequential
  /\ vm.in.timestamp.year = 2025 /\ vm.in.timestamp.month = 11
  /\ vm.out.year = 25 /\ vm.out.month = 12

HasTag(s) == \E i, j \in 1..Len(s) : i < j /\ s[i] = "<" /\ s[j] = ">"
HasNewlineRun(s) ==
  \E i \in 1..(Len(s) - 2) : s[i] = Newline /\ s[i + 1] = Newline /\ s[i + 2] = Newline
IsTrimmed(s) == s = << >> \/ (s[1] \notin Whitespace /\ s[Len(s)] \notin Whitespace)

\* C29: formatCommentsText returns, for every input string, a text that is
\* trimmed, has no run of three or more newlines and has no markup tag.
C29_SanitizedComments ==
  (vm.op = "formatCommentsText" /\ vm.pc = "returned") =>
    /\ vm.out.type = "string"
    /\ IsTrimmed(vm.out.chars)
    /\ ~HasNewlineRun(vm.out.chars)
    /\ ~HasTag(vm.out.chars)

\* the string has exactly eight colon-delimited fields
Parses(value) == Cardinality({i \in 1..Len(value.chars) : value.chars[i] = Colon}) = 7

\* C30: validate(record) returns valid = true exactly when versionNumber is
\* non-empty and parses as a version identifier and committee, timestamp and
\* comments are non-empty; otherwise valid = false and errors is not empty.
C30_ValidateExactly ==
  (vm.op = "validateVersionData" /\ vm.pc = "returned") =>
    /\ vm.out.valid <=>
         /\ ~Falsy(vm.in.versionNumber) /\ Parses(vm.in.versionNumber)
         /\ ~Falsy(vm.in.committee)
         /\ ~Falsy(vm.in.timestamp)
         /\ ~Falsy(vm.in.comments)
    /\ ~vm.out.valid => vm.out.errors # << >>
    /\ vm.out.valid => vm.out.errors = << >>

\* a record whose only defect is a version number of seven fields is rejected
C30_SevenFieldsRejected ==
  /\ vm.op = "validateVersionData" /\ vm.pc = "returned"
  /\ ~Falsy(vm.in.versionNumber) /\ ~Parses(vm.in.versionNumber)
  /\ ~Falsy(vm.in.committee) /\ ~Falsy(vm.in.timestamp) /\ ~Falsy(vm.in.comments)
  /\ ~vm.out.valid
  /\ vm.out.errors = << "Invalid version number format" >>

\* parseVersionNumber has been applied to an identifier and has ended
Parsed ==
  /\ vm.op = "parseVersionNumber" /\ vm.pc = "returned"
  /\ "timestamp" \notin DOMAIN vm.in

\* C31: parse(identifier) returns no parsed record for every identifier that
\* does not consist of exactly 8 colon-delimited fields.
C31_ParseRejects ==
  (Parsed /\ (vm.in.type = "null" \/ ~Parses(vm.in))) => vm.out \in {NoParse, TypeError}

\* an identifier of nine fields has been rejected
C31_NineFieldsRejected ==
  /\ Parsed
  /\ vm.in.type = "string"
  /\ Cardinality({i \in 1..Len(vm.in.chars) : vm.in.chars[i] = Colon}) = 8
  /\ vm.out = NoParse

\* C32: formatForDisplay renders a parsed identifier with a 12-hour clock and
\* a 4-digit year - for every hour h in 0..23 the displayed hour is 12 when
\* h mod 12 = 0 and h mod 12 otherwise, the suffix is AM for h < 12 and PM for
\* h >= 12, the month is the name of month 1..12 and the year is 2000 plus the
\* 2-digit year.
C32_DisplayFormat ==
  (vm.op = "formatVersionDate" /\ vm.pc = "returned") =>
    LET h == vm.in.hour
        shown == parseInt(vm.out[7])
    IN  /\ h % 12 = 0 => shown = 12
        /\ h % 12 # 0 => shown = h % 12
        /\ h < 12 => vm.out[11] = << "A", "M" >>
        /\ h >= 12 => vm.out[11] = << "P", "M" >>
        /\ vm.out[1] = << monthNames[vm.in.month] >>
        /\ parseInt(vm.out[5]) = 2000 + vm.in.year
        /\ Len(vm.out[5]) = 4

\* midnight of a day in December 2005 is shown as 12 AM
C32_MidnightShown ==
  /\ vm.op = "formatVersionDate" /\ vm.pc = "returned"
  /\ vm.in.hour = 0 /\ vm.in.month = 12 /\ vm.in.year = 5
  /\ vm.out[1] = << "December" >>
  /\ vm.out[5] = << "2", "0", "0", "5" >>
  /\ vm.out[7] = << "1", "2" >>
  /\ vm.out[11] = << "A", "M" >>

\* the number of pending timers and of pending calls of a kind
NT(k) == Cardinality({i \in 1..Len(timers) : timers[i].k = k})
NC(k) == Cardinality({c \in calls : c.k = k})

\* the handlers that register a timer, or issue a call, of a kind
TimerSetBy(k) ==
  CASE k = "process" -> {"exportSuccess"}
    [] k = "analyze" -> {"processCallback"}
    [] k = "extract" -> {"analyzeSuggestionsChunked"}
    [] k = "analyzed" -> {"extractSuggestions"}
    [] k = "genver" -> {"extractSuggestions", "analyzed"}
    [] k = "convert" -> {"rebuildCallback"}
    [] k = "upload" -> {"convertCallback"}
    [] k = "genafter" -> {"replaceSuccess"}
CallMadeBy(k) ==
  CASE k = "process" -> {"processDocxChunked"}
    [] k = "counter" -> {"generateBeforeVersion"}
    [] k = "convert" -> {"convertBlobToBase64"}
    [] k = "replace" -> {"replaceDocumentChunked"}

\* C33: a pause state is reached only on confirmed success - every step that
\* leads towards VERSION_1_PAUSE is taken only by the success path of the step
\* before it (export result with success === true, DOCX processing, analysis,
\* version-counter success callback), every step towards VERSION_2_PAUSE only
\* by the success path of rebuild, encoding and a replace result with
\* success === true; a continuation never holds a null result or a result
\* without success === true.
C33_PauseOnSuccess ==
  /\ [](\A i \in 1..Len(timers) :
          timers[i].k \in {"process", "genafter"} => timers[i].x = "ok")
  /\ [][ /\ \A k \in {"process", "analyze", "extract", "analyzed", "genver",
                      "convert", "upload", "genafter"} :
              NT(k)' > NT(k) => ev'.op \in TimerSetBy(k) /\ ev'.outcome = "ok"
         /\ \A k \in {"process", "counter", "convert", "replace"} :
              NC(k)' > NC(k) => ev'.op \in CallMadeBy(k) /\ ev'.outcome = "ok"
         /\ (currentState' = "VERSION_1_PAUSE" /\ currentState # "VERSION_1_PAUSE") =>
              ev'.op = "counterSuccess" /\ ev'.outcome = "ok"
         /\ (currentState' = "VERSION_2_PAUSE" /\ currentState # "VERSION_2_PAUSE") =>
              ev'.op = "generateAfterVersion" /\ ev'.outcome = "ok" ]_vars

\* the controller is at the second pause after one replace call, the document
\* having been rebuilt and encoded
C33_SecondPauseAfterReplace ==
  /\ currentState = "VERSION_2_PAUSE"
  /\ ev.op = "generateAfterVersion"
  /\ gw.replace = 1 /\ gw.export = 1
  /\ workflowData.phase2.rebuiltDocxBlob # NULL
  /\ workflowData.phase2.rebuiltDocxBase64 # NULL

\* C34: after reset(), no continuation of the cancelled run has any effect -
\* a timer or callback that runs right after reset(), before any other call
\* of the user, leaves currentState at IDLE, leaves the fresh workflowData as
\* reset() made it and invokes no Gateway operation.
C34_ResetSilencesRun ==
  [][ ( /\ ev.op = "reset"
        /\ ev'.op \notin {"startWorkflow", "resumeWorkflow", "reset", "listenerMutates"} )
      => /\ currentState' = "IDLE"
         /\ workflowData' = createInitialState
         /\ gw' = gw ]_vars

\* C35: the live document is replaced only after the first checkpoint - the
\* Gateway replace operation is never invoked while currentState is IDLE,
\* COMPLETE or ERROR (the part of the claim a state can show: a run in one of
\* these states is not between its first checkpoint and its second).
C35_ReplaceAfterCheckpoint ==
  [][ gw'.replace > gw.replace =>
        currentState \notin {"IDLE", "COMPLETE", "ERROR"} ]_vars

\* C36: chunkProcess terminates - for every finite input list and every
\* processor that returns, when the deferred timers fire, every call of
\* chunkProcess is followed by a call of onComplete, and onComplete is never
\* called a second time.
C36_ChunkTerminates ==
  /\ [](chunk.pc # "idle" => <>(chunk.completed = 1))
  /\ [](chunk.completed <= 1)

\* the same for the calls with a slice size of at least 1
C36_TerminatesWithPositiveSize ==
  /\ []((chunk.pc # "idle" /\ chunk.chunkSize >= 1) => <>(chunk.completed = 1))
  /\ [](chunk.completed <= 1)

\* C37: tracked call identifiers are unique - two remote calls issued by the
\* controller never share a call identifier: no two export calls and no two
\* replace calls that are in flight carry the same identifier.
C37_UniqueCallIds ==
  \A c, d \in calls :
    (c.k \in {"export", "replace"} /\ c.k = d.k /\ c.id = d.id) => c.h = d.h

\* C38: when the controller is in ERROR, a click on the smart button (labelled
\* "Error - Click to Reset") calls controller.reset(): the click leaves the
\* controller in IDLE.
C38_ErrorClickResets ==
  [][ ( /\ currentState = "ERROR"
        /\ updateSmartButton(currentState).textContent = "Error - Click to Reset"
        /\ userCalls' = userCalls + 1 )
      => ( ev'.op = "reset" /\ currentState' = "IDLE" ) ]_vars

\* the executions of getOrIncrementVersionCounter(true)
Incrementing == { e \in 1..MaxExecs : server.execs[e].increment }

\* C39: the server-side version counter hands out each value once - when two
\* or more executions of getOrIncrementVersionCounter(true) on one document
\* have returned and no storage error has occurred, the values they returned
\* are pairwise distinct and the stored MIGOP_VERSION_COUNT has grown by the
\* number of these executions.
C39_CounterValuesDistinct ==
  ( /\ \A e \in 1..MaxExecs : server.execs[e].pc = "returned" /\ ~server.execs[e].failed
    /\ Cardinality(Incrementing) >= 2 )
  => /\ \A e, f \in Incrementing : e # f => server.execs[e].ret # server.execs[f].ret
     /\ readCount(server.count) = server.count0 + Cardinality(Incrementing)

\* C40: writeVersionHistoryPage is all-or-nothing on failure - whenever it has
\* returned success: false, the stored MIGOP_VERSION_HISTORY property is the
\* same as before the call.
C40_HistoryAllOrNothing ==
  ( server.write.pc = "returned" /\ ~server.write.success )
  => server.history = server.write.before

====
